---- MODULE Spec2Model ----
(***************************************************************************)
(* Model of the recommendation core of the SHL assessment recommender:     *)
(* request validation (models/recommendation.py), filter extraction and    *)
(* merging, embedding, retrieval, duration filtering and reranking         *)
(* (routers/recommendations.py, services/gemini_service.py,                *)
(* services/supabase_service.py), the /recommend wrapper (main.py) and the *)
(* evaluation entry point (services/rag_pipeline.py).                      *)
(*                                                                         *)
(* Similarities are percentages (0.6 is 60).  A query string is a sequence *)
(* of tokens; a token is one character or one lower-case word, TokLen is   *)
(* its number of characters.  Python's None is NoneInt, NoneList, NoneStr  *)
(* or NoneBool according to the type of the field.                         *)
(***************************************************************************)
EXTENDS Integers, Sequences, FiniteSets, TLC

(* ------------------------------ bounds --------------------------------- *)
MaxTopK == 2
MaxRerankLen == 2

(* ----------------------- program constants ----------------------------- *)
MIN_SIMILARITY_THRESHOLD == 60
RETRIEVAL_MULTIPLIER == 3
DefaultMatchCount == 10
DefaultMinSimilarity == 50
StandardTopK == 10
MinQueryLength == 3

NoneInt == -1
NoneList == <<"None">>
NoneStr == "None"
NoneBool == "None"

(* ------------------------------ helpers -------------------------------- *)
Min2(a, b) == IF a < b THEN a ELSE b

Max2(a, b) == IF a > b THEN a ELSE b

\* s[:n] of Python
Take(s, n) == SubSeq(s, 1, Min2(n, Len(s)))

(* ------------------------------ queries -------------------------------- *)
TokLen(t) ==
  CASE t = "cognitive" -> 9
    [] t = "30 minutes" -> 10
    [] t = "1 hour" -> 6
    [] t = "manager" -> 7
    [] t = "coding" -> 6
    [] t = "remote" -> 6
    [] OTHER -> 1

IsSpace(t) == t = " "

RECURSIVE StrLen(_)
StrLen(q) == IF q = <<>> THEN 0 ELSE TokLen(Head(q)) + StrLen(Tail(q))

RECURSIVE LStrip(_)
LStrip(q) == IF q # <<>> /\ IsSpace(Head(q)) THEN LStrip(Tail(q)) ELSE q

RECURSIVE RStrip(_)
RStrip(q) ==
  IF q # <<>> /\ IsSpace(q[Len(q)]) THEN RStrip(SubSeq(q, 1, Len(q) - 1)) ELSE q

\* str.strip()
Strip(q) == RStrip(LStrip(q))

\* "kw in query" for the words of the model's alphabet
Contains(kw, q) == \E i \in DOMAIN q : q[i] = kw

Queries ==
  { <<>>,
    <<" ", " ", " ">>,
    <<"a", "b">>,
    <<" ", "a", " ">>,
    <<"a", "b", "c">>,
    <<" ", "coding", " ">>,
    <<"cognitive", " ", "30 minutes">>,
    <<"remote", " ", "manager", " ", "1 hour">> }

(* ------------------- RecommendationRequest validation ------------------ *)
\* Field(..., min_length=3): checked on the string as submitted
MinLengthOk(q) == StrLen(q) >= MinQueryLength

\* query_not_empty: "if not v or not v.strip(): raise"
QueryNotEmptyOk(q) == q # <<>> /\ Strip(q) # <<>>

RequestValid(q) == MinLengthOk(q) /\ QueryNotEmptyOk(q)

\* the value of request.query of an accepted request
ValidatedQuery(q) == Strip(q)

(* ------------------------------ filters -------------------------------- *)
FilterKeys ==
  {"job_levels", "test_types", "languages", "max_duration_minutes",
   "duration_type", "remote_testing", "min_similarity"}

\* the value a Python dict holds for "not given", by the type of the axis
NoneOf(key) ==
  CASE key \in {"job_levels", "test_types", "languages"} -> NoneList
    [] key \in {"max_duration_minutes", "min_similarity"} -> NoneInt
    [] key = "duration_type" -> NoneStr
    [] OTHER -> NoneBool

\* RecommendationFilter with every field at its default
NoFilter ==
  [job_levels |-> NoneList, test_types |-> NoneList, languages |-> NoneList,
   max_duration_minutes |-> NoneInt, duration_type |-> NoneStr,
   min_similarity |-> NoneInt, remote_testing |-> NoneBool]

\* the filter objects a caller submits in the model
CallerFilters ==
  { NoFilter,
    [NoFilter EXCEPT !.max_duration_minutes = 30],
    [NoFilter EXCEPT !.min_similarity = 90],
    [NoFilter EXCEPT !.min_similarity = 0],
    [NoFilter EXCEPT !.job_levels = <<>>, !.test_types = <<>>,
                     !.languages = <<>>, !.max_duration_minutes = 0],
    [job_levels |-> <<"Director">>, test_types |-> <<"Simulations">>,
     languages |-> <<"English">>, max_duration_minutes |-> 45,
     duration_type |-> "Fixed", min_similarity |-> 70,
     remote_testing |-> "False"] }

\* default_filters of extract_filters_from_query, filters of _get_mock_filters
DefaultFilters ==
  [job_levels |-> <<>>, test_types |-> <<>>, languages |-> <<>>,
   max_duration_minutes |-> NoneInt, remote_testing |-> NoneBool,
   min_similarity |-> NoneInt]

job_level_keywords ==
  << <<"entry", "Entry-Level">>, <<"graduate", "Graduate">>,
     <<"mid", "Mid-Professional">>,
     <<"senior", "Professional Individual Contributor">>,
     <<"manager", "Manager">>, <<"executive", "Executive">>,
     <<"director", "Director">>, <<"supervisor", "Supervisor">> >>

test_type_keywords ==
  << <<{"knowledge", "skill"}, "Knowledge & Skills">>,
     <<{"personality"}, "Personality & Behavior">>,
     <<{"cognitive", "ability", "aptitude"}, "Ability & Aptitude">>,
     <<{"simulation"}, "Simulations">>,
     <<{"situational"}, "Biodata & Situational Judgement">> >>

\* the second components of the pairs of a table, in order
Seconds(pairs) == [i \in DOMAIN pairs |-> pairs[i][2]]

\* the number and the unit matched by (\d+)\s*(?:min|minute|minutes|hour|hours)
DurationMatch(t) ==
  CASE t = "30 minutes" -> [found |-> TRUE, number |-> 30, hour |-> FALSE]
    [] t = "1 hour" -> [found |-> TRUE, number |-> 1, hour |-> TRUE]
    [] OTHER -> [found |-> FALSE, number |-> 0, hour |-> FALSE]

\* re.search: the leftmost match
RECURSIVE DurationSearch(_)
DurationSearch(q) ==
  IF q = <<>> THEN DurationMatch("")
  ELSE IF DurationMatch(Head(q)).found THEN DurationMatch(Head(q))
  ELSE DurationSearch(Tail(q))

MockDuration(q) ==
  LET m == DurationSearch(q)
  IN IF ~m.found THEN NoneInt
     ELSE IF m.hour THEN m.number * 60 ELSE m.number

MockRemote(q) ==
  IF Contains("in-person", q) \/ Contains("in person", q) \/ Contains("on-site", q)
    THEN "False"
  ELSE IF Contains("remote", q) \/ Contains("online", q) THEN "True"
  ELSE NoneBool

_get_mock_filters(q) ==
  [DefaultFilters EXCEPT
     !.job_levels =
        Seconds(SelectSeq(job_level_keywords, LAMBDA p : Contains(p[1], q))),
     !.test_types =
        Seconds(SelectSeq(test_type_keywords,
                          LAMBDA p : \E kw \in p[1] : Contains(kw, q))),
     !.max_duration_minutes = MockDuration(q),
     !.remote_testing = MockRemote(q)]

\* what the provider's answer parses to, after the empty values are removed
\* and the rest is laid over default_filters; the first is also the result of
\* every failure
LLMFilters ==
  { DefaultFilters,
    [DefaultFilters EXCEPT !.max_duration_minutes = 30],
    [DefaultFilters EXCEPT !.min_similarity = 80, !.job_levels = <<"Manager">>],
    [job_levels |-> <<>>, test_types |-> <<"Simulations">>, languages |-> <<>>,
     max_duration_minutes |-> NoneInt, remote_testing |-> "True",
     min_similarity |-> NoneInt, duration_type |-> "Untimed"] }

\* the truth value Python gives the caller's field in the tests of the merge
CallerTruthy(f, key) ==
  CASE key \in {"job_levels", "test_types", "languages"} ->
         f[key] # NoneList /\ f[key] # <<>>
    [] key = "max_duration_minutes" ->
         f[key] # NoneInt /\ f[key] # 0 /\ f[key] > 0
    [] key = "duration_type" -> f[key] # NoneStr /\ f[key] # ""
    [] key = "remote_testing" -> f[key] # NoneBool
    [] OTHER -> f[key] # NoneInt /\ f[key] # 0

\* a merge that adds the extracted list of an axis to the caller's list
MergeFilters_concatenating(has_filters, f, extracted) ==
  LET own == IF has_filters THEN {k \in FilterKeys : CallerTruthy(f, k)} ELSE {}
  IN [k \in own \cup DOMAIN extracted |->
        IF k \in own
          THEN IF k \in {"job_levels", "test_types", "languages"}
                    /\ k \in DOMAIN extracted
                 THEN f[k] \o extracted[k]
                 ELSE f[k]
          ELSE extracted[k]]

\* merged_filters of get_recommendations: the caller's fields that pass their
\* test, then every extracted key that is not yet a key
MergeFilters(has_filters, f, extracted) ==
  LET own == IF has_filters THEN {k \in FilterKeys : CallerTruthy(f, k)} ELSE {}
  IN [k \in own \cup DOMAIN extracted |-> IF k \in own THEN f[k] ELSE extracted[k]]

\* dict.get(key, default)
DictGet(d, key, default) == IF key \in DOMAIN d THEN d[key] ELSE default

(* ------------------------- catalog and retrieval ----------------------- *)
\* base_assessments of _get_mock_matches; no entry has a "duration_minutes"
\* key, so match.get("duration_minutes") is None for each of them
MockRow(id, name, dmin, dmax, variable) ==
  [id |-> id, name |-> name, similarity |-> 0, duration_minutes |-> NoneInt,
   duration_min_minutes |-> dmin, duration_max_minutes |-> dmax,
   is_untimed |-> FALSE, is_variable_duration |-> variable]

base_assessments ==
  << MockRow("1", "Verbal Reasoning Assessment", 30, 30, FALSE),
     MockRow("2", "Numerical Reasoning Assessment", 40, 40, FALSE),
     MockRow("3", "Inductive Reasoning Assessment", 25, 25, FALSE),
     MockRow("4", "Personality Assessment", 25, 35, TRUE),
     MockRow("5", "Coding Skills Assessment", 60, 60, FALSE),
     MockRow("6", "Situational Judgment Test", 30, 30, FALSE),
     MockRow("7", "Leadership Assessment", 45, 45, FALSE) >>

\* keywords of _get_mock_matches
match_keywords ==
  << <<"coding", {"Coding Skills Assessment"}>>,
     <<"software", {"Coding Skills Assessment", "Inductive Reasoning Assessment"}>>,
     <<"developer", {"Coding Skills Assessment", "Inductive Reasoning Assessment"}>>,
     <<"programming", {"Coding Skills Assessment"}>>,
     <<"personality", {"Personality Assessment"}>>,
     <<"behavior", {"Personality Assessment", "Situational Judgment Test"}>>,
     <<"leadership", {"Leadership Assessment", "Situational Judgment Test"}>>,
     <<"manager", {"Leadership Assessment", "Numerical Reasoning Assessment"}>>,
     <<"executive", {"Leadership Assessment", "Numerical Reasoning Assessment"}>>,
     <<"entry", {"Verbal Reasoning Assessment", "Coding Skills Assessment"}>>,
     <<"junior", {"Verbal Reasoning Assessment", "Coding Skills Assessment"}>>,
     <<"technical", {"Coding Skills Assessment", "Numerical Reasoning Assessment"}>>,
     <<"verbal", {"Verbal Reasoning Assessment"}>>,
     <<"numerical", {"Numerical Reasoning Assessment"}>>,
     <<"math", {"Numerical Reasoning Assessment"}>>,
     <<"reasoning", {"Verbal Reasoning Assessment", "Numerical Reasoning Assessment",
                     "Inductive Reasoning Assessment"}>> >>

\* assessment_scores[name]
assessment_score(name, q) ==
  Cardinality({i \in DOMAIN match_keywords :
                 Contains(match_keywords[i][1], q) /\ name \in match_keywords[i][2]})

\* sorted(rows, key=score, reverse=True): stable, highest score first
RECURSIVE SortedByScore(_, _, _)
SortedByScore(rows, q, score) ==
  IF score < 0 THEN <<>>
  ELSE SelectSeq(rows, LAMBDA r : assessment_score(r.name, q) = score)
         \o SortedByScore(rows, q, score - 1)

\* the similarity given to position i (0-based) of the personalized results
MockSimilarity(i) == Max2(60, Min2(98, 95 - i * 5))

\* the similarity given to position i (0-based) when there is no query
MockSimilarityNoQuery(i) == Max2(60, Min2(95, 92 - i * 3))

\* _get_mock_matches: all seven assessments; match_count and min_similarity
\* are not parameters of it
_get_mock_matches(q) ==
  IF q # <<>>
    THEN LET sorted == SortedByScore(base_assessments, q, Len(match_keywords))
         IN [i \in DOMAIN sorted |->
               [sorted[i] EXCEPT !.similarity = MockSimilarity(i - 1)]]
    ELSE [i \in DOMAIN base_assessments |->
            [base_assessments[i] EXCEPT !.similarity = MockSimilarityNoQuery(i - 1)]]

\* rows of the assessments table, with the similarity of each to the query
DBRow(id, name, sim, dur, dmin, dmax, untimed) ==
  [id |-> id, name |-> name, similarity |-> sim, duration_minutes |-> dur,
   duration_min_minutes |-> dmin, duration_max_minutes |-> dmax,
   is_untimed |-> untimed, is_variable_duration |-> FALSE]

DBRows ==
  { DBRow(101, "Java", 90, 40, 40, 40, FALSE),
    DBRow(102, "Python", 70, 50, 50, 50, FALSE),
    DBRow(103, "Sales", 55, NoneInt, NoneInt, NoneInt, FALSE),
    DBRow(104, "Typing", 45, NoneInt, NoneInt, NoneInt, TRUE) }

\* the contents the table can have
Tables ==
  { {}, {r \in DBRows : r.similarity < DefaultMinSimilarity},
    {r \in DBRows : r.duration_minutes # NoneInt}, DBRows }

\* the rows of a set, highest similarity first, ties by id ascending
RECURSIVE BySimilarity(_)
BySimilarity(rows) ==
  IF rows = {} THEN <<>>
  ELSE LET best == CHOOSE r \in rows : \A o \in rows :
                     \/ r.similarity > o.similarity
                     \/ r.similarity = o.similarity /\ r.id <= o.id
       IN <<best>> \o BySimilarity(rows \ {best})

\* the stored function match_assessments(query_embedding, match_threshold,
\* match_count) called through client.rpc
RpcMatchAssessments(rows, match_threshold, match_count) ==
  Take(BySimilarity({r \in rows : r.similarity >= match_threshold}), match_count)

\* SupabaseService.match_assessments when the rpc call does not raise
match_assessments(svc, rows, embedding, match_count, min_similarity, q) ==
  IF svc.use_mock THEN _get_mock_matches(q)
  ELSE IF ~svc.initialized THEN _get_mock_matches(q)
  ELSE IF embedding \in {"None", "empty"} THEN _get_mock_matches(q)
  ELSE LET data == RpcMatchAssessments(rows, min_similarity, match_count)
       IN IF data = <<>> THEN _get_mock_matches(q) ELSE data

(* ------------------------- duration filtering -------------------------- *)
\* the loop of get_recommendations over the matches
DurationFiltered(ms, max_duration) ==
  SelectSeq(ms, LAMBDA m :
     ~(m.duration_minutes # NoneInt /\ m.duration_minutes > max_duration))

\* the duration filter without the return to the unfiltered matches
ApplyDurationFilter_keeping_empty(ms, merged) ==
  LET max_duration == DictGet(merged, "max_duration_minutes", 0)
  IN IF max_duration # NoneInt /\ max_duration # 0 /\ max_duration > 0
       THEN DurationFiltered(ms, max_duration)
       ELSE ms

\* matches after "Apply duration filters if specified"
ApplyDurationFilter(ms, merged) ==
  LET max_duration == DictGet(merged, "max_duration_minutes", 0)
  IN IF max_duration # NoneInt /\ max_duration # 0 /\ max_duration > 0
       THEN IF DurationFiltered(ms, max_duration) # <<>>
              THEN DurationFiltered(ms, max_duration)
              ELSE ms
       ELSE ms

(* ------------------------------ reranking ------------------------------ *)
\* the sequences of k distinct elements of S
RECURSIVE Arrangements(_, _)
Arrangements(S, k) ==
  IF k = 0 THEN {<<>>}
  ELSE UNION {{<<x>> \o p : p \in Arrangements(S \ {x}, k - 1)} : x \in S}

\* the sequences over S of length at most n
SeqsUpTo(S, n) == UNION {[1..l -> S] : l \in 0..n}

\* _get_mock_recommendations: the first min(len(context_docs), top_k) indices
\* of a shuffle of range(len(context_docs)) seeded with hash(query)
_get_mock_recommendations(n_docs, k) ==
  IF Min2(n_docs, k) = 0 THEN {<<>>}
  ELSE Arrangements(0..(n_docs - 1), Min2(n_docs, k))

\* what generate_recommendations can do for n_docs documents: return a list
\* of indices (0-based, in range when they come from the provider) or raise
generate_recommendations(svc, n_docs, k) ==
  IF svc.use_mock \/ ~svc.initialized
    THEN {[raised |-> FALSE, indices |-> ix] : ix \in _get_mock_recommendations(n_docs, k)}
  ELSE IF n_docs = 0 THEN {[raised |-> FALSE, indices |-> <<>>]}
  ELSE {[raised |-> FALSE, indices |-> ix] :
          ix \in SeqsUpTo(0..(n_docs - 1), MaxRerankLen)}
       \cup {[raised |-> TRUE, indices |-> <<>>]}

\* [idx for idx in reranked_indices if isinstance(idx, int) and 0 <= idx < len(matches)]
ValidIndices(indices, n) == SelectSeq(indices, LAMBDA idx : 0 <= idx /\ idx < n)

\* the loop "fill with the top similarity matches": used_ids is computed once,
\* before the loop
RECURSIVE FillFromMatches(_, _, _, _)
FillFromMatches(recs, ms, used_ids, k) ==
  IF ms = <<>> THEN recs
  ELSE IF Head(ms).id \notin used_ids /\ Len(recs) < k
         THEN FillFromMatches(Append(recs, Head(ms)), Tail(ms), used_ids, k)
         ELSE FillFromMatches(recs, Tail(ms), used_ids, k)

\* rerank_recommendations, given what generate_recommendations did
rerank_recommendations(ms, k, out) ==
  IF out.raised THEN Take(ms, k)
  ELSE IF out.indices = <<>> THEN Take(ms, k)
  ELSE LET valid_indices == ValidIndices(out.indices, Len(ms))
           picked == Take(valid_indices, k)
           recs == [i \in DOMAIN picked |-> ms[picked[i] + 1]]
       IN IF Len(recs) < k
            THEN FillFromMatches(recs, ms, {recs[i].id : i \in DOMAIN recs}, k)
            ELSE recs

\* the test of get_recommendations that decides whether the reranker is called
ShouldRerank(ms, k, always) == ms # <<>> /\ (k < Len(ms) \/ always)

\* the loop of process_query over recommended_indices
PipelineRecommendations(ms, indices) ==
  LET valid == ValidIndices(indices, Len(ms))
  IN [i \in DOMAIN valid |-> ms[valid[i] + 1]]

(* ------------------------------ responses ------------------------------ *)
\* duration of a StandardAssessmentRecommendation; the duration_text of the
\* rows of the model is never a pure number
StandardDuration(a) ==
  IF a.duration_max_minutes # NoneInt THEN a.duration_max_minutes
  ELSE IF a.duration_min_minutes # NoneInt THEN a.duration_min_minutes
  ELSE 0

\* the items of the StandardRecommendationResponse
StandardAssessments(recs) ==
  [i \in DOMAIN recs |-> [id |-> recs[i].id, duration |-> StandardDuration(recs[i])]]

(* ------------------------------- state --------------------------------- *)
VARIABLES
  settings,           \* USE_MOCK_DATA, ALWAYS_USE_LLM_RERANKING
  gemini_service,     \* use_mock, initialized
  supabase_service,   \* use_mock, initialized
  table,              \* the rows of the assessments table
  pc,                 \* where the request being served is
  entry,              \* "api": POST /api/recommendations, "std": POST /recommend,
                      \* "eval": RAGPipeline.get_recommendations
  raw_query,          \* the query as submitted
  request,            \* the RecommendationRequest
  top_k,              \* the top_k the pipeline works with
  extracted_filters,
  merged_filters,
  embedding_call,     \* what get_embedding did: "none" (not called), "mock",
                      \* "real", "empty" or "raise"
  query_embedding,    \* "None", "mock", "real" or "empty"
  matches,
  reranked,           \* what generate_recommendations did, if called
  result,             \* how get_recommendations / process_query ended
  response            \* what the entry point gave its caller

\* two runs of one request in mock mode
VARIABLES
  process,            \* what hash(query) makes of random in the running interpreter
  clock,              \* time.time()
  runs                \* the response bodies of the runs so far

run_vars == <<process, clock, runs>>

\* the evaluation service
VARIABLES
  ground_truth_data,  \* the entries of the ground truth, in the order of the dict
  eval_pc,            \* where evaluate_all is: "idle", "loop", "summarize", "returned"
  eval_k,
  eval_keys,          \* the keys the loop of evaluate_all walks
  eval_index,         \* the position of the loop in them
  evaluation_results,
  call_failed,        \* the ids whose recommendation call failed in this run
  summary,            \* what the last evaluate_all returned
  results_dir,        \* the files of the results directory
  completed_runs      \* the evaluate_all runs that returned a summary

eval_vars ==
  <<ground_truth_data, eval_pc, eval_k, eval_keys, eval_index,
    evaluation_results, call_failed, summary, results_dir, completed_runs>>

\* a provider call under the retry decorator
VARIABLES
  provider_call,      \* the call in progress: function, attempts made, what the
                      \* SDK did in each, the exception that left the last one
  call_log            \* the calls that have ended

retry_vars == <<provider_call, call_log>>

\* the duration parsers
VARIABLES
  duration_cell,      \* the duration cell of a row of the catalog file
  loaded,             \* the duration columns load_data gives the row
  parsed              \* what data_parser.parse_duration_text makes of the cell

parse_vars == <<duration_cell, loaded, parsed>>

\* the external calls of a request
VARIABLES
  outstanding         \* the provider calls awaited and not yet returned

calls_vars == <<outstanding>>

\* the variables of the other components
others == <<run_vars, eval_vars, retry_vars, parse_vars, calls_vars>>

main_vars ==
  <<settings, gemini_service, supabase_service, table, pc, entry, raw_query,
    request, top_k, extracted_filters, merged_filters, embedding_call,
    query_embedding, matches, reranked, result, response>>

vars == <<main_vars, others>>

\* no interpreter under observation, no run made
RunsIdle ==
  /\ process = [embedding |-> "none", order |-> <<>>]
  /\ clock = 0
  /\ runs = <<>>

\* evaluate_all has not returned yet
NoSummary == [status |-> "none"]

\* evaluate_all returned None
ReturnedNone == [status |-> "None"]

\* no ground truth loaded, no evaluation run
EvalIdle ==
  /\ ground_truth_data = <<>>
  /\ eval_pc = "idle"
  /\ eval_k = 0
  /\ eval_keys = <<>>
  /\ eval_index = 0
  /\ evaluation_results = <<>>
  /\ call_failed = {}
  /\ summary = NoSummary
  /\ results_dir = {}
  /\ completed_runs = 0

\* no call in progress
NoCall == [fn |-> "none", pc |-> "idle", attempts |-> 0, sdk |-> <<>>,
           exception |-> "none"]

\* no provider call followed
RetryIdle ==
  /\ provider_call = NoCall
  /\ call_log = <<>>

\* the cell has not been parsed
NotParsed == [status |-> "none"]

\* no cell under the parsers
ParseIdle ==
  /\ duration_cell = <<>>
  /\ loaded = NotParsed
  /\ parsed = NotParsed

\* no provider call awaited
CallsIdle == outstanding = {}

OthersIdle == RunsIdle /\ EvalIdle /\ RetryIdle /\ ParseIdle /\ CallsIdle

config == <<settings, gemini_service, supabase_service, table>>

NoRequest == [query |-> <<>>, top_k |-> 0, has_filters |-> FALSE, filters |-> NoFilter]

NoResult == [status |-> "none", code |-> 0, recommendations |-> <<>>, total_assessments |-> 0]

NoResponse == [status |-> "none", items |-> <<>>]

NotCalled == [called |-> FALSE, raised |-> FALSE, indices |-> <<>>]

Called(out) == [called |-> TRUE, raised |-> out.raised, indices |-> out.indices]

Ok(recs, total) ==
  [status |-> "ok", code |-> 200, recommendations |-> recs, total_assessments |-> total]

HTTPException(code) ==
  [status |-> "HTTPException", code |-> code, recommendations |-> <<>>,
   total_assessments |-> 0]

Raised(kind) ==
  [status |-> kind, code |-> 0, recommendations |-> <<>>, total_assessments |-> 0]

\* what the entry point makes of the way the pipeline ended
Deliver(e, res) ==
  CASE e = "api" ->
         IF res.status = "ok" THEN [status |-> "200", items |-> res.recommendations]
         ELSE IF res.code = 400 THEN [status |-> "400", items |-> <<>>]
         ELSE [status |-> "500", items |-> <<>>]
    [] e = "std" ->
         IF res.status = "ok"
           THEN [status |-> "200", items |-> StandardAssessments(res.recommendations)]
           ELSE [status |-> "200", items |-> <<>>]
    [] OTHER ->
         IF res.status = "ok" THEN [status |-> "returned", items |-> res.recommendations]
         ELSE [status |-> "returned", items |-> <<>>]

\* no request is being served
RequestIdle ==
  /\ pc = "idle"
  /\ entry = "none"
  /\ raw_query = <<>>
  /\ request = NoRequest
  /\ top_k = 0
  /\ extracted_filters = <<>>
  /\ merged_filters = <<>>
  /\ embedding_call = "none"
  /\ query_embedding = "None"
  /\ matches = <<>>
  /\ reranked = NotCalled
  /\ result = NoResult
  /\ response = NoResponse

\* GeminiService.__init__ and SupabaseService.__init__: with USE_MOCK_DATA no
\* client is created; without it each client is initialized or has failed to.
\* The table is only read through an initialized client.
Init ==
  /\ settings \in [USE_MOCK_DATA : BOOLEAN, ALWAYS_USE_LLM_RERANKING : BOOLEAN]
  /\ gemini_service \in [use_mock : {settings.USE_MOCK_DATA}, initialized : BOOLEAN]
  /\ settings.USE_MOCK_DATA => ~gemini_service.initialized
  /\ supabase_service \in [use_mock : BOOLEAN, initialized : BOOLEAN]
  /\ supabase_service.use_mock = ~supabase_service.initialized
  /\ settings.USE_MOCK_DATA => ~supabase_service.initialized
  /\ table \in Tables
  /\ ~supabase_service.initialized => table = {}
  /\ RequestIdle
  /\ OthersIdle

\* the end of a request
Finish(e, res) ==
  /\ result' = res
  /\ response' = Deliver(e, res)
  /\ pc' = "done"

(* ------------------- POST /api/recommendations ------------------------- *)
\* the body is validated into a RecommendationRequest before the handler runs;
\* then lines 37-43 of get_recommendations
SubmitApi(q, k, hf, f) ==
  /\ pc = "idle"
  /\ entry' = "api"
  /\ raw_query' = q
  /\ top_k' = k
  /\ UNCHANGED <<config, extracted_filters, merged_filters, embedding_call,
                 query_embedding, matches, reranked>>
  /\ IF ~RequestValid(q)
       THEN /\ request' = NoRequest
            /\ result' = NoResult
            /\ response' = [status |-> "422", items |-> <<>>]
            /\ pc' = "done"
       ELSE /\ request' = [query |-> ValidatedQuery(q), top_k |-> k,
                           has_filters |-> hf, filters |-> f]
            /\ IF ValidatedQuery(q) = <<>>
                 THEN Finish("api", HTTPException(400))
                 ELSE /\ pc' = "extract"
                      /\ UNCHANGED <<result, response>>

(* --------------------------- POST /recommend --------------------------- *)
\* standard_recommend up to the call of get_recommendations(request, top_k=10);
\* RecommendationRequest(query=query) is built outside the try
SubmitStandard(q) ==
  /\ pc = "idle"
  /\ entry' = "std"
  /\ raw_query' = q
  /\ UNCHANGED <<config, extracted_filters, merged_filters, embedding_call,
                 query_embedding, matches, reranked>>
  /\ IF q = <<>>
       THEN /\ request' = NoRequest
            /\ top_k' = 0
            /\ result' = NoResult
            /\ response' = [status |-> "200", items |-> <<>>]
            /\ pc' = "done"
     ELSE IF ~RequestValid(q)
       THEN /\ request' = NoRequest
            /\ top_k' = 0
            /\ result' = NoResult
            /\ response' = [status |-> "unhandled", items |-> <<>>]
            /\ pc' = "done"
     ELSE /\ request' = [query |-> ValidatedQuery(q), top_k |-> 5,
                         has_filters |-> FALSE, filters |-> NoFilter]
          /\ top_k' = StandardTopK
          /\ IF ValidatedQuery(q) = <<>>
               THEN Finish("std", HTTPException(400))
               ELSE /\ pc' = "extract"
                    /\ UNCHANGED <<result, response>>

(* ------------------------- get_recommendations ------------------------- *)
\* lines 47-77: extract_filters_from_query never raises; the filters are merged
ExtractFilters ==
  /\ pc = "extract"
  /\ \E ef \in (IF gemini_service.use_mock \/ ~gemini_service.initialized
                  THEN {_get_mock_filters(request.query)}
                  ELSE LLMFilters) :
       /\ extracted_filters' = ef
       /\ merged_filters' = MergeFilters(request.has_filters, request.filters, ef)
  /\ pc' = "embed"
  /\ UNCHANGED <<config, entry, raw_query, request, top_k, embedding_call,
                 query_embedding, matches, reranked, result, response>>

\* get_embedding with the provider's failure replaced by the deterministic vector
get_embedding_fallback_on_error(svc) ==
  IF svc.use_mock THEN {"mock"}
  ELSE IF ~svc.initialized THEN {"mock"}
  ELSE {"real", "empty", "mock"}

\* what GeminiService.get_embedding can do: the deterministic vector when the
\* service is in mock mode or not initialized, else the provider's answer
get_embedding(svc) ==
  IF svc.use_mock THEN {"mock"}
  ELSE IF ~svc.initialized THEN {"mock"}
  ELSE {"real", "empty", "raise"}

\* lines 79-87
GetEmbedding ==
  /\ pc = "embed"
  /\ \E e \in get_embedding(gemini_service) :
       /\ embedding_call' = e
       /\ IF e = "raise" \/ (e = "empty" /\ ~settings.USE_MOCK_DATA)
            THEN /\ query_embedding' = IF e = "raise" THEN "None" ELSE e
                 /\ Finish(entry, HTTPException(500))
            ELSE /\ query_embedding' = e
                 /\ pc' = "match"
                 /\ UNCHANGED <<result, response>>
  /\ UNCHANGED <<config, entry, raw_query, request, top_k, extracted_filters,
                 merged_filters, matches, reranked>>

\* lines 89-101: what the vector search of get_recommendations returns when the
\* rpc call does not raise, through match_assessments or perform_vector_search
VectorSearch ==
  IF settings.USE_MOCK_DATA \/ ~supabase_service.initialized
    THEN match_assessments(supabase_service, table, query_embedding,
           top_k * RETRIEVAL_MULTIPLIER,
           DictGet(merged_filters, "min_similarity", MIN_SIMILARITY_THRESHOLD),
           request.query)
    ELSE match_assessments(supabase_service, table, query_embedding,
           DefaultMatchCount, DefaultMinSimilarity, request.query)

\* lines 89-142: retrieval, the empty result, the duration filter
MatchAssessments ==
  /\ pc = "match"
  /\ UNCHANGED <<config, entry, raw_query, request, top_k, extracted_filters,
                 merged_filters, embedding_call, query_embedding, reranked>>
  /\ \E rpc_fails \in BOOLEAN :
       LET mock_branch == settings.USE_MOCK_DATA \/ ~supabase_service.initialized
           found == VectorSearch
       IN IF rpc_fails /\ ~mock_branch
            THEN /\ matches' = <<>>
                 /\ Finish(entry, HTTPException(500))
          ELSE IF found = <<>>
            THEN /\ matches' = <<>>
                 /\ Finish(entry, Ok(<<>>, 0))
          ELSE /\ matches' = ApplyDurationFilter(found, merged_filters)
               /\ pc' = "rerank"
               /\ UNCHANGED <<result, response>>

\* lines 144-167: rerank or take the first top_k, and answer
Recommend ==
  /\ pc = "rerank"
  /\ UNCHANGED <<config, entry, raw_query, request, top_k, extracted_filters,
                 merged_filters, embedding_call, query_embedding, matches>>
  /\ IF ShouldRerank(matches, top_k, settings.ALWAYS_USE_LLM_RERANKING)
       THEN \E out \in generate_recommendations(gemini_service, Len(matches), top_k) :
              /\ reranked' = Called(out)
              /\ Finish(entry, Ok(rerank_recommendations(matches, top_k, out),
                                  Len(matches)))
       ELSE /\ reranked' = NotCalled
            /\ Finish(entry, Ok(Take(matches, top_k), Len(matches)))

(* ------------- RAGPipeline.get_recommendations / process_query --------- *)
\* RAGPipeline.get_recommendations builds the request inside its try and calls
\* process_query, whose first test is "if not request.query"
SubmitEvaluation(q, k) ==
  /\ pc = "idle"
  /\ entry' = "eval"
  /\ raw_query' = q
  /\ top_k' = k
  /\ UNCHANGED <<config, extracted_filters, merged_filters, embedding_call,
                 query_embedding, matches, reranked>>
  /\ IF ~RequestValid(q)
       THEN /\ request' = NoRequest
            /\ result' = NoResult
            /\ response' = [status |-> "returned", items |-> <<>>]
            /\ pc' = "done"
       ELSE /\ request' = [query |-> ValidatedQuery(q), top_k |-> k,
                           has_filters |-> FALSE, filters |-> NoFilter]
            /\ IF ValidatedQuery(q) = <<>>
                 THEN Finish("eval", Raised("ValueError"))
                 ELSE /\ pc' = "pq_embed"
                      /\ UNCHANGED <<result, response>>

\* process_query, step 1
PipelineGetEmbedding ==
  /\ pc = "pq_embed"
  /\ \E e \in get_embedding(gemini_service) :
       /\ embedding_call' = e
       /\ IF e = "raise"
            THEN /\ query_embedding' = "None"
                 /\ Finish(entry, Raised("RuntimeError"))
            ELSE /\ query_embedding' = e
                 /\ pc' = "pq_match"
                 /\ UNCHANGED <<result, response>>
  /\ UNCHANGED <<config, entry, raw_query, request, top_k, extracted_filters,
                 merged_filters, matches, reranked>>

\* the keyword arguments process_query adds to the call of match_assessments
PipelineFilterArgs(req) ==
  IF ~req.has_filters THEN {}
  ELSE {k \in {"job_levels", "test_types", "languages"} :
          req.filters[k] # NoneList /\ req.filters[k] # <<>>}
       \cup {k \in {"max_duration_minutes"} :
               req.filters[k] # NoneInt /\ req.filters[k] # 0}
       \cup {k \in {"remote_testing"} : req.filters[k] # NoneBool}

\* match_threshold of process_query
PipelineThreshold(req) ==
  IF req.has_filters /\ req.filters.min_similarity # NoneInt
     /\ req.filters.min_similarity # 0
    THEN req.filters.min_similarity
    ELSE MIN_SIMILARITY_THRESHOLD

\* process_query, steps 2 and 3; match_assessments accepts no filter_* argument
PipelineMatchAssessments ==
  /\ pc = "pq_match"
  /\ UNCHANGED <<config, entry, raw_query, request, top_k, extracted_filters,
                 merged_filters, embedding_call, query_embedding, reranked>>
  /\ \E rpc_fails \in BOOLEAN :
       LET real == supabase_service.initialized /\ ~supabase_service.use_mock
                   /\ query_embedding \notin {"None", "empty"}
           found == match_assessments(supabase_service, table, query_embedding,
                      request.top_k * RETRIEVAL_MULTIPLIER,
                      PipelineThreshold(request), request.query)
       IN IF PipelineFilterArgs(request) # {} \/ (rpc_fails /\ real)
            THEN /\ matches' = <<>>
                 /\ Finish(entry, Raised("RuntimeError"))
          ELSE IF found = <<>>
            THEN /\ matches' = <<>>
                 /\ Finish(entry, Ok(<<>>, 0))
          ELSE /\ matches' = found
               /\ pc' = "pq_generate"
               /\ UNCHANGED <<result, response>>

\* process_query, steps 4 and 5
PipelineGenerate ==
  /\ pc = "pq_generate"
  /\ UNCHANGED <<config, entry, raw_query, request, top_k, extracted_filters,
                 merged_filters, embedding_call, query_embedding, matches>>
  /\ \E out \in generate_recommendations(gemini_service, Len(matches), request.top_k) :
       /\ reranked' = Called(out)
       /\ IF out.raised
            THEN Finish(entry, Raised("RuntimeError"))
            ELSE Finish(entry, Ok(PipelineRecommendations(matches, out.indices),
                                  Len(matches)))

\* the server takes the next request
NextRequest ==
  /\ pc = "done"
  /\ pc' = "idle"
  /\ entry' = "none"
  /\ raw_query' = <<>>
  /\ request' = NoRequest
  /\ top_k' = 0
  /\ extracted_filters' = <<>>
  /\ merged_filters' = <<>>
  /\ embedding_call' = "none"
  /\ query_embedding' = "None"
  /\ matches' = <<>>
  /\ reranked' = NotCalled
  /\ result' = NoResult
  /\ response' = NoResponse
  /\ UNCHANGED config

Next ==
  \/ \E q \in Queries, k \in 1..MaxTopK, hf \in BOOLEAN, f \in CallerFilters :
       /\ (~hf => f = NoFilter)
       /\ SubmitApi(q, k, hf, f)
       /\ UNCHANGED others
  \/ \E q \in Queries : SubmitStandard(q) /\ UNCHANGED others
  \/ \E q \in Queries, k \in 1..MaxTopK : SubmitEvaluation(q, k) /\ UNCHANGED others
  \/ ExtractFilters /\ UNCHANGED others
  \/ GetEmbedding /\ UNCHANGED others
  \/ MatchAssessments /\ UNCHANGED others
  \/ Recommend /\ UNCHANGED others
  \/ PipelineGetEmbedding /\ UNCHANGED others
  \/ PipelineMatchAssessments /\ UNCHANGED others
  \/ PipelineGenerate /\ UNCHANGED others
  \/ NextRequest /\ UNCHANGED others

Spec == Init /\ [][Next]_vars

(* ====================== properties of the claims ======================= *)
\* the request has been answered by the recommendation pipeline
Answered == pc = "done" /\ result.status = "ok"

\* effective duration: duration_max_minutes if set, else duration_min_minutes
EffectiveDuration(a) ==
  IF a.duration_max_minutes # NoneInt THEN a.duration_max_minutes
  ELSE a.duration_min_minutes

\* the candidate does not pass max_duration_minutes = M: it is untimed, or its
\* effective duration is known and above M
ViolatesMaxDuration(a, M) ==
  \/ a.is_untimed
  \/ EffectiveDuration(a) # NoneInt /\ EffectiveDuration(a) > M

\* the caller supplied max_duration_minutes
CallerMaxDuration ==
  request.has_filters /\ request.filters.max_duration_minutes # NoneInt
  /\ request.filters.max_duration_minutes > 0

\* the effective minimum similarity of the request
EffectiveMinSimilarity ==
  IF request.has_filters /\ request.filters.min_similarity # NoneInt
    THEN request.filters.min_similarity
    ELSE MIN_SIMILARITY_THRESHOLD

\* the caller set the axis: a non-empty list, or a present value (for
\* max_duration_minutes a positive one, the only values the data model gives it)
CallerSetAxis(key) ==
  /\ request.has_filters
  /\ IF key \in {"job_levels", "test_types", "languages"}
       THEN request.filters[key] # NoneList /\ request.filters[key] # <<>>
     ELSE IF key = "max_duration_minutes"
       THEN request.filters[key] # NoneInt /\ request.filters[key] > 0
     ELSE request.filters[key] # NoneOf(key)

\* C1: both entry points return at most top_k items, whatever the reranker
\* returned.
C1_AtMostTopK == Answered => Len(result.recommendations) <= top_k

\* C2: the returned recommendations are pairwise distinct by assessment id.
C2_DistinctIds ==
  Answered =>
    \A i, j \in DOMAIN result.recommendations :
      i # j => result.recommendations[i].id # result.recommendations[j].id

\* C3: every recommendation returned by get_recommendations has a similarity
\* of at least the effective minimum similarity of the request.
C3_SimilarityFloor ==
  (Answered /\ entry \in {"api", "std"}) =>
    \A i \in DOMAIN result.recommendations :
      result.recommendations[i].similarity >= EffectiveMinSimilarity

\* C4: per axis, the merged value is the caller's value when the caller set the
\* axis, and otherwise the value inferred from the query if there is one.
C4_MergePerAxis ==
  (pc = "embed" /\ entry \in {"api", "std"}) =>
    \A key \in FilterKeys :
      IF CallerSetAxis(key)
        THEN key \in DOMAIN merged_filters
             /\ merged_filters[key] = request.filters[key]
        ELSE key \in DOMAIN extracted_filters =>
               key \in DOMAIN merged_filters
               /\ merged_filters[key] = extracted_filters[key]

\* C5: with a caller-supplied max_duration_minutes = M, no returned item is
\* untimed or has an effective duration above M.
C5_MaxDuration ==
  (Answered /\ entry = "api" /\ CallerMaxDuration) =>
    \A i \in DOMAIN result.recommendations :
      ~ViolatesMaxDuration(result.recommendations[i],
                           request.filters.max_duration_minutes)

\* C6: when the caller's max_duration_minutes excludes every retrieved
\* candidate, the filter is not dropped: nothing is returned.
C6_CallerFilterKept ==
  (Answered /\ entry = "api" /\ CallerMaxDuration
   /\ \A i \in DOMAIN matches :
        ViolatesMaxDuration(matches[i], request.filters.max_duration_minutes)) =>
    result.recommendations = <<>>

\* C7: POST /recommend always completes with a body, empty when the pipeline
\* failed and of at most 10 entries otherwise.
C7_StandardNeverRaises ==
  (pc = "done" /\ entry = "std") =>
    /\ response.status = "200"
    /\ Len(response.items) <= StandardTopK
    /\ result.status \notin {"ok", "none"} => response.items = <<>>

\* C8: a request whose trimmed query has fewer than 3 characters is rejected,
\* and the query of every accepted request has at least 3 characters.
C8_TrimmedLength ==
  /\ (pc = "done" /\ entry = "api" /\ StrLen(Strip(raw_query)) < MinQueryLength) =>
       response.status = "422"
  /\ request # NoRequest => StrLen(request.query) >= MinQueryLength

\* C9: when the reranker raises or returns nothing, the request still succeeds
\* with the first top_k candidates in similarity order.
C9_RerankFallback ==
  (pc = "done" /\ reranked.called /\ (reranked.raised \/ reranked.indices = <<>>)) =>
    /\ result.status = "ok"
    /\ result.recommendations = Take(matches, top_k)

\* C10 as stated: on POST /api/recommendations the deterministic embedding is
\* used only when USE_MOCK_DATA is true.
C10_FallbackOnlyInMockMode ==
  (entry = "api" /\ embedding_call = "mock") => settings.USE_MOCK_DATA

\* C10: on POST /api/recommendations, a failed or empty embedding of an
\* initialized provider without USE_MOCK_DATA ends the request with an error and
\* no recommendations; the deterministic embedding is used exactly when
\* USE_MOCK_DATA is true or the provider is not initialized.
C10_EmbeddingFailureFatal ==
  (entry = "api" /\ embedding_call # "none") =>
    /\ (embedding_call = "mock") <=>
         (settings.USE_MOCK_DATA \/ ~gemini_service.initialized)
    /\ embedding_call \in {"raise", "empty"} =>
         /\ pc = "done"
         /\ response.status = "500"
         /\ response.items = <<>>

\* an initialized provider failed on POST /api/recommendations
C10_Witness ==
  /\ entry = "api" /\ ~settings.USE_MOCK_DATA /\ gemini_service.initialized
  /\ embedding_call = "raise" /\ response.status = "500"

\* the similarity floor get_recommendations passes to the store: the merged
\* min_similarity through match_assessments, the default of match_assessments
\* through perform_vector_search
SearchFloor ==
  IF settings.USE_MOCK_DATA \/ ~supabase_service.initialized
    THEN DictGet(merged_filters, "min_similarity", MIN_SIMILARITY_THRESHOLD)
    ELSE DefaultMinSimilarity

\* the vector search of get_recommendations ran against the stored assessments
SearchedStore ==
  /\ entry \in {"api", "std"}
  /\ supabase_service.initialized
  /\ query_embedding = "real"

\* C11: when no stored assessment has a similarity of at least the floor, the
\* request is answered successfully with no recommendation and
\* total_assessments = 0.
C11_NoMatchEmptyResponse ==
  (Answered /\ SearchedStore
   /\ \A r \in table : r.similarity < SearchFloor) =>
    /\ result.recommendations = <<>>
    /\ result.total_assessments = 0

(* ------------- two runs of one request with USE_MOCK_DATA -------------- *)
\* the ticks the clock can show
MaxClock == 1

\* the documents whose position in the shuffled order the model tells apart
MaxShuffled == 2

\* what the hash-seeded generators give in one interpreter for the query of the
\* request: hash(str) is salted per interpreter, so random.seed(hash(text) %
\* 10000) fixes, for the life of the interpreter, the vector of
\* _get_mock_embedding and the order random.shuffle leaves the indices in (its
\* first MaxTopK places are kept)
Interpreters ==
  [embedding : {"mock_a", "mock_b"},
   order : Arrangements(0..(MaxShuffled - 1), Min2(MaxTopK, MaxShuffled))]

\* _get_mock_recommendations in an interpreter: indices[:max_idx]
ShuffledIndices(proc, n_docs, k) == Take(proc.order, Min2(n_docs, k))

\* get_recommendations with USE_MOCK_DATA, from the request to the
\* RecommendationResponse: mock filters, merge, mock matches, duration filter,
\* mock reranking; processing_time and timestamp are read from the clock
MockModeResponse(req, k, always, proc, elapsed, now) ==
  LET merged == MergeFilters(req.has_filters, req.filters,
                             _get_mock_filters(req.query))
      found == _get_mock_matches(req.query)
      ms == ApplyDurationFilter(found, merged)
      recs == IF ShouldRerank(ms, k, always)
                THEN rerank_recommendations(ms, k,
                       [raised |-> FALSE,
                        indices |-> ShuffledIndices(proc, Len(ms), k)])
                ELSE Take(ms, k)
  IN [recommendations |-> recs, query_embedding |-> proc.embedding,
      processing_time |-> elapsed, total_assessments |-> Len(ms),
      timestamp |-> now]

\* the server is configured with USE_MOCK_DATA and one request is chosen
InitRuns ==
  /\ settings \in [USE_MOCK_DATA : {TRUE}, ALWAYS_USE_LLM_RERANKING : BOOLEAN]
  /\ gemini_service = [use_mock |-> TRUE, initialized |-> FALSE]
  /\ supabase_service = [use_mock |-> TRUE, initialized |-> FALSE]
  /\ table = {}
  /\ pc = "idle"
  /\ entry = "api"
  /\ \E q \in Queries, k \in 1..MaxTopK, hf \in BOOLEAN, f \in CallerFilters :
       /\ ~hf => f = NoFilter
       /\ RequestValid(q) /\ ValidatedQuery(q) # <<>>
       /\ raw_query = q
       /\ request = [query |-> ValidatedQuery(q), top_k |-> k,
                     has_filters |-> hf, filters |-> f]
       /\ top_k = k
  /\ extracted_filters = <<>>
  /\ merged_filters = <<>>
  /\ embedding_call = "none"
  /\ query_embedding = "None"
  /\ matches = <<>>
  /\ reranked = NotCalled
  /\ result = NoResult
  /\ response = NoResponse
  /\ process \in Interpreters
  /\ clock = 0
  /\ runs = <<>>
  /\ EvalIdle
  /\ RetryIdle
  /\ ParseIdle
  /\ CallsIdle

\* one run of the request: it starts now, and the clock is read again when the
\* response is built
RunMock ==
  /\ Len(runs) < 2
  /\ \E end \in clock..MaxClock :
       /\ clock' = end
       /\ runs' = Append(runs,
            MockModeResponse(request, top_k, settings.ALWAYS_USE_LLM_RERANKING,
                             process, end - clock, end))
  /\ UNCHANGED process

\* the server is restarted between the runs: a new interpreter, a new hash salt
RestartProcess ==
  /\ Len(runs) = 1
  /\ process' \in Interpreters \ {process}
  /\ UNCHANGED <<clock, runs>>

NextRuns ==
  \/ RunMock /\ UNCHANGED <<main_vars, eval_vars, retry_vars, parse_vars, calls_vars>>
  \/ RestartProcess /\ UNCHANGED <<main_vars, eval_vars, retry_vars, parse_vars, calls_vars>>

SpecRuns == InitRuns /\ [][NextRuns]_vars

\* C12: with USE_MOCK_DATA two runs on the same query, top_k and filters give
\* identical response bodies.
C12_MockRunsIdentical == Len(runs) = 2 => runs[1] = runs[2]

(* ------------------------- evaluation harness -------------------------- *)
\* the evaluate_all runs that are followed
MaxRuns == 2

\* RecommendationRequest.top_k: Field(5, ge=1, le=20)
TopKLimit == 20

\* a quotient of two integers, kept exact: Python computes it in floating point
Frac(n, d) == [num |-> n, den |-> d]

FracAdd(a, b) == Frac(a.num * b.den + b.num * a.den, a.den * b.den)

FracDiv(a, n) == Frac(a.num, a.den * n)

FracEq(a, b) == a.num * b.den = b.num * a.den

FracLeq(a, b) == a.num * b.den <= b.num * a.den

\* a QueryGroundTruth
GT(id, q, relevant) == [id |-> id, query |-> q, relevant_assessments |-> relevant]

\* the ground-truth files the service can have loaded, as the dict keyed by id
\* in insertion order
GroundTruths ==
  { <<>>,
    << GT("q1", <<"a", "b", "c">>, <<"Java">>) >>,
    << GT("q1", <<"a", "b">>, <<"Python">>),
       GT("q2", <<"a", "b", "c">>, <<"Java", "Python">>) >>,
    << GT("q1", <<"a", "b", "c">>, <<>>),
       GT("q2", <<"a", "b", "c">>, <<"Sales", "Java">>) >> }

\* the values of k the runs are started with; run_evaluation puts no bound on k
EvalKs == {0, MaxTopK}

\* what RAGPipeline.get_recommendations(query, top_k) can do: every exception
\* of the request's validation and of process_query is turned into []
CallFailed == [failed |-> TRUE, recommendations |-> <<>>]

CallReturned(recs) == [failed |-> FALSE, recommendations |-> recs]

\* what the embedding provider does during an evaluation: a vector or a failure
EvalEmbeddings(svc) == get_embedding(svc) \ {"empty"}

PipelineOutcomes(q, k) ==
  IF ~RequestValid(q) \/ k < 1 \/ k > TopKLimit THEN {CallFailed}
  ELSE IF ValidatedQuery(q) = <<>> THEN {CallFailed}
  ELSE UNION {
    IF e = "raise" THEN {CallFailed}
    ELSE LET real == supabase_service.initialized /\ ~supabase_service.use_mock
             found == match_assessments(supabase_service, table, e,
                        k * RETRIEVAL_MULTIPLIER, MIN_SIMILARITY_THRESHOLD,
                        ValidatedQuery(q))
         IN (IF real THEN {CallFailed} ELSE {})
            \cup (IF found = <<>> THEN {CallReturned(<<>>)}
                  ELSE {IF out.raised THEN CallFailed
                        ELSE CallReturned(PipelineRecommendations(found, out.indices)) :
                          out \in generate_recommendations(gemini_service, Len(found), k)})
    : e \in EvalEmbeddings(gemini_service)}

\* [rec.name for rec in recommendations]
Names(recs) == [i \in DOMAIN recs |-> recs[i].name]

\* name in relevant_names
InList(name, names) == \E i \in DOMAIN names : names[i] = name

\* [rec_name for rec_name in names if rec_name in relevant_names]
RelevantOf(names, relevant_names) ==
  SelectSeq(names, LAMBDA n : InList(n, relevant_names))

\* precision_at_positions
PrecisionAtPositions(names, relevant_names) ==
  [i \in DOMAIN names |->
     Frac(Len(RelevantOf(SubSeq(names, 1, i), relevant_names)), i)]

\* the loop that sums num_relevant / (i + 1) over the relevant positions
RECURSIVE ApSum(_, _, _)
ApSum(names, relevant_names, i) ==
  IF i = 0 THEN Frac(0, 1)
  ELSE IF InList(names[i], relevant_names)
    THEN FracAdd(ApSum(names, relevant_names, i - 1),
                 Frac(Len(RelevantOf(SubSeq(names, 1, i), relevant_names)), i))
    ELSE ApSum(names, relevant_names, i - 1)

\* evaluate_query with the exception of the recommendation call let through to
\* its own handler, which returns None
evaluate_query_call_raises(gt, call) ==
  IF call.failed THEN [status |-> "None"]
  ELSE LET names == Names(call.recommendations)
           relevant_names == gt.relevant_assessments
       IN [status |-> "result",
           query_id |-> gt.id,
           query_text |-> gt.query,
           recall_at_k |-> IF relevant_names # <<>>
                             THEN Frac(Len(RelevantOf(names, relevant_names)),
                                       Len(relevant_names))
                             ELSE Frac(0, 1),
           precision_at_k |-> PrecisionAtPositions(names, relevant_names),
           average_precision |-> IF relevant_names # <<>>
                                   THEN FracDiv(ApSum(names, relevant_names, Len(names)),
                                                Len(relevant_names))
                                   ELSE Frac(0, 1),
           recommended_assessments |-> names,
           relevant_recommended |-> RelevantOf(names, relevant_names),
           total_relevant |-> Len(relevant_names)]

\* evaluate_query for an entry of the ground truth, given what the
\* recommendation call did
evaluate_query(gt, call) ==
  LET names == Names(call.recommendations)
      relevant_names == gt.relevant_assessments
  IN [status |-> "result",
      query_id |-> gt.id,
      query_text |-> gt.query,
      recall_at_k |-> IF relevant_names # <<>>
                        THEN Frac(Len(RelevantOf(names, relevant_names)),
                                  Len(relevant_names))
                        ELSE Frac(0, 1),
      precision_at_k |-> PrecisionAtPositions(names, relevant_names),
      average_precision |-> IF relevant_names # <<>>
                              THEN FracDiv(ApSum(names, relevant_names, Len(names)),
                                           Len(relevant_names))
                              ELSE Frac(0, 1),
      recommended_assessments |-> names,
      relevant_recommended |-> RelevantOf(names, relevant_names),
      total_relevant |-> Len(relevant_names)]

\* recall_sum and ap_sum of evaluate_all
RECURSIVE FracSum(_, _)
FracSum(results, field) ==
  IF results = <<>> THEN Frac(0, 1)
  ELSE FracAdd(FracSum(SubSeq(results, 1, Len(results) - 1), field),
               results[Len(results)][field])

\* the EvaluationSummary of evaluate_all
EvaluationSummary(results, k, now) ==
  [status |-> "summary",
   mean_recall_at_k |-> FracDiv(FracSum(results, "recall_at_k"), Len(results)),
   mean_average_precision |->
     FracDiv(FracSum(results, "average_precision"), Len(results)),
   k_value |-> k,
   total_queries |-> Len(results),
   timestamp |-> now]

\* the entry of the ground truth with the id
HasId(data, id) == \E i \in DOMAIN data : data[i].id = id

GroundTruthOf(data, id) == data[CHOOSE i \in DOMAIN data : data[i].id = id]

\* the evaluation service and store of a deployment with its ground truth loaded
InitEval ==
  /\ settings = [USE_MOCK_DATA |-> FALSE, ALWAYS_USE_LLM_RERANKING |-> FALSE]
  /\ gemini_service \in [use_mock : {FALSE}, initialized : BOOLEAN]
  /\ supabase_service = [use_mock |-> FALSE, initialized |-> TRUE]
  /\ table = DBRows
  /\ RequestIdle
  /\ RunsIdle
  /\ RetryIdle
  /\ ParseIdle
  /\ CallsIdle
  /\ ground_truth_data \in GroundTruths
  /\ eval_pc = "idle"
  /\ eval_k = 0
  /\ eval_keys = <<>>
  /\ eval_index = 0
  /\ evaluation_results = <<>>
  /\ call_failed = {}
  /\ summary = NoSummary
  /\ results_dir = {}
  /\ completed_runs = 0

\* evaluate_all(k) up to the first iteration of "for query_id in
\* self.ground_truth_data": the loop walks the keys of the dict it started with
StartEvaluation(k) ==
  /\ eval_pc \in {"idle", "returned"}
  /\ completed_runs < MaxRuns
  /\ eval_k' = k
  /\ evaluation_results' = <<>>
  /\ call_failed' = {}
  /\ IF ground_truth_data = <<>>
       THEN /\ summary' = ReturnedNone
            /\ eval_pc' = "returned"
            /\ eval_keys' = <<>>
            /\ eval_index' = 0
       ELSE /\ summary' = NoSummary
            /\ eval_pc' = "loop"
            /\ eval_keys' = [i \in DOMAIN ground_truth_data |-> ground_truth_data[i].id]
            /\ eval_index' = 1
  /\ UNCHANGED <<ground_truth_data, results_dir, completed_runs, clock>>

\* one iteration: result = await self.evaluate_query(query_id, k); a result
\* that is not None is appended
EvaluateNext ==
  /\ eval_pc = "loop"
  /\ LET query_id == eval_keys[eval_index]
     IN IF ~HasId(ground_truth_data, query_id)
          THEN UNCHANGED <<evaluation_results, call_failed>>
          ELSE LET gt == GroundTruthOf(ground_truth_data, query_id)
               IN \E call \in PipelineOutcomes(gt.query, eval_k) :
                    /\ call_failed' = IF call.failed THEN call_failed \cup {query_id}
                                      ELSE call_failed
                    /\ evaluation_results' =
                         IF evaluate_query(gt, call).status = "result"
                           THEN Append(evaluation_results, evaluate_query(gt, call))
                           ELSE evaluation_results
  /\ eval_index' = eval_index + 1
  /\ eval_pc' = IF eval_index = Len(eval_keys) THEN "summarize" ELSE "loop"
  /\ UNCHANGED <<ground_truth_data, eval_k, eval_keys, summary, results_dir,
                 completed_runs, clock>>

\* the file _save_evaluation_results writes: evaluation_<timestamp>.json, named
\* by the second; of its content the run that wrote it and its total_queries
\* are kept
EvaluationFile(timestamp, run, results) ==
  [name |-> timestamp, run |-> run, total_queries |-> Len(results)]

\* open(filepath, 'w'): a file of the same name is replaced
_save_evaluation_results(dir, file) ==
  {f \in dir : f.name # file.name} \cup {file}

\* evaluate_all after the loop: the summary is built and saved
Summarize ==
  /\ eval_pc = "summarize"
  /\ eval_pc' = "returned"
  /\ IF evaluation_results = <<>>
       THEN /\ summary' = ReturnedNone
            /\ UNCHANGED <<results_dir, completed_runs, clock>>
       ELSE \E now \in clock..MaxClock :
              /\ clock' = now
              /\ summary' = EvaluationSummary(evaluation_results, eval_k, now)
              /\ results_dir' = _save_evaluation_results(results_dir,
                   EvaluationFile(now, completed_runs + 1, evaluation_results))
              /\ completed_runs' = completed_runs + 1
  /\ UNCHANGED <<ground_truth_data, eval_k, eval_keys, eval_index,
                 evaluation_results, call_failed>>

NextEval ==
  \/ \E k \in EvalKs : StartEvaluation(k) /\ UNCHANGED <<main_vars, process, runs, retry_vars, parse_vars, calls_vars>>
  \/ EvaluateNext /\ UNCHANGED <<main_vars, process, runs, retry_vars, parse_vars, calls_vars>>
  \/ Summarize /\ UNCHANGED <<main_vars, process, runs, retry_vars, parse_vars, calls_vars>>

SpecEval == InitEval /\ [][NextEval]_vars

\* the quotient lies in [0, 1]
InUnitInterval(x) == FracLeq(Frac(0, 1), x) /\ FracLeq(x, Frac(1, 1))

\* C13: the recall_at_k and the average_precision of every evaluated query lie
\* in [0, 1], and the mean_average_precision of a summary is the arithmetic mean
\* of the average_precision values of its results.
C13_MetricsInUnitInterval ==
  /\ \A i \in DOMAIN evaluation_results :
       /\ InUnitInterval(evaluation_results[i].recall_at_k)
       /\ InUnitInterval(evaluation_results[i].average_precision)
  /\ summary.status = "summary" =>
       FracEq(summary.mean_average_precision,
              FracDiv(FracSum(evaluation_results, "average_precision"),
                      Len(evaluation_results)))

\* C14 as stated: every evaluate_all run returns a summary whose total_queries
\* is the number of entries of the ground truth.
C14_SummaryForEveryGroundTruth ==
  eval_pc = "returned" =>
    /\ summary.status = "summary"
    /\ summary.total_queries = Len(ground_truth_data)

\* C14: evaluate_all over a ground truth of n >= 1 entries returns a summary
\* with total_queries = n and one result per entry, in the order of the entries;
\* an entry whose recommendation call failed has recall 0, average precision 0
\* and no recommended item, and the entries after it are evaluated; over an
\* empty ground truth evaluate_all returns None.
C14_OneResultPerEntry ==
  /\ eval_pc = "loop" => Len(evaluation_results) = eval_index - 1
  /\ (eval_pc = "returned" /\ ground_truth_data = <<>>) => summary = ReturnedNone
  /\ (eval_pc = "returned" /\ ground_truth_data # <<>>) =>
       /\ summary.status = "summary"
       /\ summary.total_queries = Len(ground_truth_data)
       /\ Len(evaluation_results) = Len(ground_truth_data)
       /\ \A i \in DOMAIN evaluation_results :
            /\ evaluation_results[i].query_id = ground_truth_data[i].id
            /\ ground_truth_data[i].id \in call_failed =>
                 /\ evaluation_results[i].recall_at_k.num = 0
                 /\ evaluation_results[i].average_precision.num = 0
                 /\ evaluation_results[i].recommended_assessments = <<>>

\* a run has returned in which the call of the first entry failed and the
\* second entry got recommendations
C14_Witness ==
  /\ eval_pc = "returned"
  /\ Len(ground_truth_data) = 2
  /\ ground_truth_data[1].id \in call_failed
  /\ Len(evaluation_results) = 2
  /\ evaluation_results[2].recommended_assessments # <<>>

\* C15: the results directory holds one file per completed evaluate_all run,
\* each still as the run that wrote it left it.
C15_OneArtifactPerRun ==
  /\ Cardinality(results_dir) = completed_runs
  /\ \A run \in 1..completed_runs : \E f \in results_dir : f.run = run

(* ---------------------- provider calls and retries --------------------- *)
\* the provider calls that are followed
MaxCalls == 2

\* stop=stop_after_attempt(3)
STOP_AFTER_ATTEMPT == 3

\* retry=retry_if_exception_type((ConnectionError, TimeoutError))
RetriedExceptions == {"ConnectionError", "TimeoutError"}

\* what the call of the provider's SDK inside the function can do: answer, or
\* raise a transient or another error
SdkOutcomes == {"ok", "ConnectionError", "TimeoutError", "ValueError"}

\* the decorated functions
ProviderFunctions == {"get_embedding", "generate_recommendations"}

\* one execution of the body of get_embedding / generate_recommendations: the
\* mock answer without a client, else the SDK call inside "try: ... except
\* Exception as e: raise RuntimeError(...)"; the value is "returned" or the type
\* of the exception that leaves the function
ProviderAttempt(svc, sdk) ==
  IF svc.use_mock \/ ~svc.initialized THEN "returned"
  ELSE IF sdk = "ok" THEN "returned"
  ELSE "RuntimeError"

\* the decision of tenacity after an attempt that raised
ShouldRetry(exception, attempt_number) ==
  exception \in RetriedExceptions /\ attempt_number < STOP_AFTER_ATTEMPT

InitRetry ==
  /\ settings \in [USE_MOCK_DATA : BOOLEAN, ALWAYS_USE_LLM_RERANKING : {FALSE}]
  /\ gemini_service \in [use_mock : {settings.USE_MOCK_DATA}, initialized : BOOLEAN]
  /\ settings.USE_MOCK_DATA => ~gemini_service.initialized
  /\ supabase_service = [use_mock |-> TRUE, initialized |-> FALSE]
  /\ table = {}
  /\ RequestIdle
  /\ RunsIdle
  /\ EvalIdle
  /\ ParseIdle
  /\ CallsIdle
  /\ provider_call = NoCall
  /\ call_log = <<>>

\* a caller awaits gemini_service.get_embedding or .generate_recommendations
CallProvider(fn) ==
  /\ provider_call.pc = "idle"
  /\ Len(call_log) < MaxCalls
  /\ provider_call' = [NoCall EXCEPT !.fn = fn, !.pc = "running"]
  /\ UNCHANGED call_log

\* tenacity runs the function once more; sdk[i] is what the SDK did in attempt i
\* ("none" when it was not called)
Attempt ==
  /\ provider_call.pc = "running"
  /\ \E sdk \in (IF gemini_service.use_mock \/ ~gemini_service.initialized
                   THEN {"none"} ELSE SdkOutcomes) :
       LET done == ProviderAttempt(gemini_service, sdk)
           n == provider_call.attempts + 1
       IN provider_call' =
            [provider_call EXCEPT
               !.attempts = n,
               !.sdk = Append(@, sdk),
               !.exception = IF done = "returned" THEN "none" ELSE done,
               !.pc = IF done = "returned" THEN "returned"
                      ELSE IF ShouldRetry(done, n) THEN "running"
                      ELSE "raised"]
  /\ UNCHANGED call_log

\* the caller goes on
EndCall ==
  /\ provider_call.pc \in {"returned", "raised"}
  /\ call_log' = Append(call_log, provider_call)
  /\ provider_call' = NoCall

NextRetry ==
  \/ \E fn \in ProviderFunctions :
       CallProvider(fn) /\ UNCHANGED <<main_vars, run_vars, eval_vars, parse_vars, calls_vars>>
  \/ Attempt /\ UNCHANGED <<main_vars, run_vars, eval_vars, parse_vars, calls_vars>>
  \/ EndCall /\ UNCHANGED <<main_vars, run_vars, eval_vars, parse_vars, calls_vars>>

SpecRetry == InitRetry /\ [][NextRetry]_vars

\* the SDK raised a transient error in attempt i of the call
TransientAt(call, i) == call.sdk[i] \in RetriedExceptions

\* C16: a provider call is never attempted more than 3 times; an attempt that
\* hits a ConnectionError or TimeoutError is followed by another attempt unless
\* it was the third, and an attempt that hits another error is the last.
C16_TransientErrorsRetried ==
  /\ provider_call.attempts <= STOP_AFTER_ATTEMPT
  /\ provider_call.pc \in {"returned", "raised"} =>
       \A i \in DOMAIN provider_call.sdk :
         /\ (TransientAt(provider_call, i) /\ i < STOP_AFTER_ATTEMPT) =>
              i < provider_call.attempts
         /\ provider_call.sdk[i] \notin RetriedExceptions \cup {"ok", "none"} =>
              i = provider_call.attempts

\* C17: merging the caller's filters with the result of the merge gives that
\* result again.
C17_MergeIdempotent ==
  (pc = "embed" /\ entry \in {"api", "std"}) =>
    MergeFilters(request.has_filters, request.filters, merged_filters)
      = merged_filters

\* a merge in which the caller and the query disagree on an axis and the query
\* alone gives another
C17_Witness ==
  /\ pc = "embed" /\ entry = "api" /\ request.has_filters
  /\ request.filters.min_similarity = 70
  /\ extracted_filters.min_similarity = 80
  /\ request.filters.job_levels = <<"Director">>
  /\ extracted_filters.job_levels = <<"Manager">>
  /\ merged_filters.min_similarity = 70
  /\ merged_filters.job_levels = <<"Director">>

(* ----------------------- attributes of the rows ------------------------ *)
\* job_levels, test_types, languages and remote_testing of the assessments, by
\* name: those of base_assessments of _get_mock_matches, and those the stored
\* rows of the model have
Attributes(name) ==
  CASE name = "Verbal Reasoning Assessment" ->
         [job_levels |-> <<"Professional", "Manager", "Entry Level">>,
          test_types |-> <<"Verbal Reasoning", "Cognitive Ability">>,
          languages |-> <<"English", "French", "German">>,
          remote_testing |-> "True"]
    [] name = "Numerical Reasoning Assessment" ->
         [job_levels |-> <<"Professional", "Manager", "Executive">>,
          test_types |-> <<"Numerical Reasoning", "Cognitive Ability">>,
          languages |-> <<"English", "Spanish", "French">>,
          remote_testing |-> "True"]
    [] name = "Inductive Reasoning Assessment" ->
         [job_levels |-> <<"Professional", "Manager">>,
          test_types |-> <<"Inductive Reasoning", "Cognitive Ability">>,
          languages |-> <<"English", "French", "Chinese">>,
          remote_testing |-> "True"]
    [] name = "Personality Assessment" ->
         [job_levels |-> <<"All Levels">>,
          test_types |-> <<"Personality", "Behavioral">>,
          languages |-> <<"English", "French", "German", "Spanish", "Chinese">>,
          remote_testing |-> "True"]
    [] name = "Coding Skills Assessment" ->
         [job_levels |-> <<"Professional", "Entry Level">>,
          test_types |-> <<"Technical", "Coding">>,
          languages |-> <<"English">>,
          remote_testing |-> "True"]
    [] name = "Situational Judgment Test" ->
         [job_levels |-> <<"Manager", "Professional", "Entry Level">>,
          test_types |-> <<"Situational Judgment", "Behavioral">>,
          languages |-> <<"English", "Spanish", "French">>,
          remote_testing |-> "True"]
    [] name = "Leadership Assessment" ->
         [job_levels |-> <<"Manager", "Executive">>,
          test_types |-> <<"Leadership", "Behavioral", "Cognitive">>,
          languages |-> <<"English", "French", "German">>,
          remote_testing |-> "True"]
    [] name \in {"Java", "Python"} ->
         [job_levels |-> <<"Professional">>,
          test_types |-> <<"Technical", "Simulations">>,
          languages |-> <<"English">>,
          remote_testing |-> "True"]
    [] OTHER ->
         [job_levels |-> <<"Manager", "Director">>,
          test_types |-> <<"Simulations">>,
          languages |-> <<"English">>,
          remote_testing |-> "False"]

\* the two lists have an element in common
Intersects(a, b) == \E i \in DOMAIN a : \E j \in DOMAIN b : a[i] = b[j]

\* the merged filters set the list axis
MergedSetsList(key) ==
  /\ key \in DOMAIN merged_filters
  /\ merged_filters[key] # NoneList
  /\ merged_filters[key] # <<>>

\* C18: every returned candidate shares an element with each of job_levels,
\* test_types and languages that the merged filters set, and has the
\* remote_testing flag the merged filters set.
C18_ListAndRemoteFiltersApplied ==
  (Answered /\ entry \in {"api", "std"}) =>
    \A i \in DOMAIN result.recommendations :
      LET has == Attributes(result.recommendations[i].name)
      IN /\ \A key \in {"job_levels", "test_types", "languages"} :
              MergedSetsList(key) => Intersects(has[key], merged_filters[key])
         /\ ("remote_testing" \in DOMAIN merged_filters
             /\ merged_filters.remote_testing # NoneBool) =>
              has.remote_testing = merged_filters.remote_testing

(* --------------------------- duration parsers -------------------------- *)
\* A duration string is a sequence of tokens: a numeral, a word, "-" or one
\* blank.  The numerals of the model and int() of them:
Numerals == {"15", "20", "35", "42"}

IsNum(t) == t \in Numerals

IntOf(t) ==
  CASE t = "15" -> 15
    [] t = "20" -> 20
    [] t = "35" -> 35
    [] OTHER -> 42

\* str.lower() of a token
Lower(t) ==
  CASE t = "Untimed" -> "untimed"
    [] t = "TBC" -> "tbc"
    [] t = "N/A" -> "n/a"
    [] t = "Max" -> "max"
    [] OTHER -> t

LowerText(text) == [i \in DOMAIN text |-> Lower(text[i])]

\* the duration cells that are parsed
DurationTexts ==
  { <<>>,
    <<"42">>, <<"15">>, <<" ", "42", " ">>,
    <<"max", " ", "20">>, <<"Max", " ", "35">>, <<"max", " ", " ", "15">>,
    <<"15", " ", "to", " ", "35">>, <<"20", " ", "to", " ", "42">>,
    <<"35", " ", "to", " ", "15">>, <<"20", " ", "to", " ", "20">>,
    <<"untimed">>, <<"Untimed">>, <<"untimed", " ", "assessment">>,
    <<"variable">>, <<"tbc">>, <<"TBC">>, <<"n/a">>, <<"N/A">>, <<"-">>,
    <<"unknown">>, <<"assessment">>,
    <<"15", " ", "minutes">>, <<"20", " ", "hours">>, <<"20", "hr">>,
    <<"15", " ", "to", " ", "35", " ", "minutes">>,
    <<"15", "-", "35", " ", "minutes">>,
    <<"15", " ", "to", " ", "20", " ", "hours">>,
    <<"35", " ", "to", " ", "15", " ", "minutes">>,
    <<"variable", " ", "15", " ", "minutes">> }

\* every token strictly between positions i and j is a blank
SpacesBetween(text, i, j) == \A m \in (i + 1)..(j - 1) : text[m] = " "

\* the least element of a non-empty set of positions: re.search returns the
\* leftmost match
First(S) == CHOOSE i \in S : \A j \in S : i <= j

\* the positions where a match of (\d+)\s+to starts
NumThenTo(text) ==
  {i \in DOMAIN text :
     /\ IsNum(text[i])
     /\ \E j \in DOMAIN text :
          j > i + 1 /\ SpacesBetween(text, i, j) /\ text[j] = "to"}

\* the positions of the numeral of a match of <word>\s+(\d+)
NumAfterWord(text, word) ==
  {j \in DOMAIN text :
     /\ IsNum(text[j])
     /\ \E i \in DOMAIN text :
          j > i + 1 /\ SpacesBetween(text, i, j) /\ text[i] = word}

\* re.match(r'^\d+$', text)
PureInteger(text) == Len(text) = 1 /\ IsNum(text[1])

\* load_data.parse_duration_min
parse_duration_min(duration_text) ==
  IF duration_text = <<>> THEN NoneInt
  ELSE LET text == LowerText(Strip(duration_text))
       IN IF PureInteger(text) THEN IntOf(text[1])
          ELSE IF NumThenTo(text) # {} THEN IntOf(text[First(NumThenTo(text))])
          ELSE NoneInt

\* load_data.parse_duration_max
parse_duration_max(duration_text) ==
  IF duration_text = <<>> THEN NoneInt
  ELSE LET text == LowerText(Strip(duration_text))
       IN IF PureInteger(text) THEN IntOf(text[1])
          ELSE IF NumAfterWord(text, "max") # {}
            THEN IntOf(text[First(NumAfterWord(text, "max"))])
          ELSE IF NumAfterWord(text, "to") # {}
            THEN IntOf(text[First(NumAfterWord(text, "to"))])
          ELSE NoneInt

\* load_data.is_untimed_duration
is_untimed_duration(duration_text) ==
  IF duration_text = <<>> THEN FALSE
  ELSE Contains("untimed", LowerText(Strip(duration_text)))

\* load_data.is_variable_duration
is_variable_duration(duration_text) ==
  IF duration_text = <<>> THEN FALSE
  ELSE LET text == LowerText(Strip(duration_text))
       IN text \in {<<"variable">>, <<"tbc">>, <<"n/a">>, <<"-">>}
          \/ Contains("variable", text)

\* the duration fields of a parsed cell
Duration(min, max, untimed, variable) ==
  [status |-> "parsed", duration_min_minutes |-> min, duration_max_minutes |-> max,
   is_untimed |-> untimed, is_variable_duration |-> variable]

\* the duration columns load_data builds for a row
LoadedDuration(duration_text) ==
  Duration(parse_duration_min(duration_text), parse_duration_max(duration_text),
           is_untimed_duration(duration_text), is_variable_duration(duration_text))

\* the alternative of (min|minute|minutes|hr|hour|hours) that matches at the
\* start of the token, "" if none does
UnitAt(t) ==
  CASE t \in {"min", "minute", "minutes"} -> "min"
    [] t \in {"hr", "hrs"} -> "hr"
    [] t \in {"hour", "hours"} -> "hour"
    [] OTHER -> ""

\* the matches <<i, k, l>> of (\d+)\s*(?:-|to)\s*(\d+)\s*(unit): the two numerals
\* and the unit
RangeMatches(text) ==
  {m \in (DOMAIN text) \X (DOMAIN text) \X (DOMAIN text) :
     /\ IsNum(text[m[1]]) /\ IsNum(text[m[2]]) /\ UnitAt(text[m[3]]) # ""
     /\ m[2] > m[1] + 1 /\ m[3] > m[2]
     /\ SpacesBetween(text, m[2], m[3])
     /\ \E j \in (m[1] + 1)..(m[2] - 1) :
          /\ text[j] \in {"-", "to"}
          /\ SpacesBetween(text, m[1], j)
          /\ SpacesBetween(text, j, m[2])}

\* the matches <<i, l>> of (\d+(?:\.\d+)?)\s*(unit)
SingleMatches(text) ==
  {m \in (DOMAIN text) \X (DOMAIN text) :
     /\ IsNum(text[m[1]]) /\ UnitAt(text[m[2]]) # ""
     /\ m[2] > m[1]
     /\ SpacesBetween(text, m[1], m[2])}

\* the leftmost of the matches
Leftmost(M) == CHOOSE m \in M : \A o \in M : m[1] <= o[1]

\* data_parser.parse_duration_text
parse_duration_text(duration_text) ==
  LET text == LowerText(duration_text)
      digits == {i \in DOMAIN text : IsNum(text[i])}
  IN IF duration_text = <<>> \/ text \in {<<"na">>, <<"n/a">>, <<"unknown">>}
       THEN Duration(NoneInt, NoneInt, FALSE, FALSE)
     ELSE IF Contains("untimed", text)
       THEN Duration(NoneInt, NoneInt, TRUE, FALSE)
     ELSE IF (Contains("varies", text) \/ Contains("variable", text)) /\ digits = {}
       THEN Duration(NoneInt, NoneInt, FALSE, TRUE)
     ELSE IF RangeMatches(text) # {}
       THEN LET m == Leftmost(RangeMatches(text))
                scale == IF UnitAt(text[m[3]]) = "hr" THEN 60 ELSE 1
            IN Duration(IntOf(text[m[1]]) * scale, IntOf(text[m[2]]) * scale,
                        FALSE, TRUE)
     ELSE IF SingleMatches(text) # {}
       THEN LET m == Leftmost(SingleMatches(text))
                scale == IF UnitAt(text[m[2]]) = "hr" THEN 60 ELSE 1
            IN Duration(IntOf(text[m[1]]) * scale, IntOf(text[m[1]]) * scale,
                        FALSE, FALSE)
     ELSE IF digits # {}
       THEN LET minutes == IntOf(text[First(digits)])
                scale == IF Contains("hour", text) \/ Contains("hours", text)
                           THEN 60 ELSE 1
            IN Duration(minutes * scale, minutes * scale, FALSE, FALSE)
     ELSE Duration(NoneInt, NoneInt, FALSE, TRUE)

\* load_data parses the cell for the row it builds
LoadRow ==
  /\ loaded.status = "none"
  /\ loaded' = LoadedDuration(duration_cell)
  /\ UNCHANGED <<duration_cell, parsed>>

\* data_parser parses the cell
ParseDurationText ==
  /\ parsed.status = "none"
  /\ parsed' = parse_duration_text(duration_cell)
  /\ UNCHANGED <<duration_cell, loaded>>

InitParse ==
  /\ settings = [USE_MOCK_DATA |-> TRUE, ALWAYS_USE_LLM_RERANKING |-> FALSE]
  /\ gemini_service = [use_mock |-> TRUE, initialized |-> FALSE]
  /\ supabase_service = [use_mock |-> TRUE, initialized |-> FALSE]
  /\ table = {}
  /\ RequestIdle
  /\ RunsIdle
  /\ EvalIdle
  /\ RetryIdle
  /\ CallsIdle
  /\ duration_cell \in DurationTexts
  /\ loaded = NotParsed
  /\ parsed = NotParsed

NextParse ==
  \/ LoadRow /\ UNCHANGED <<main_vars, run_vars, eval_vars, retry_vars, calls_vars>>
  \/ ParseDurationText /\ UNCHANGED <<main_vars, run_vars, eval_vars, retry_vars, calls_vars>>

SpecParse == InitParse /\ [][NextParse]_vars

\* the shape of the cell in the table of duration shapes, after trimming and
\* lower-casing: a pure integer, "max N", "N to M" (N <= M), a string starting
\* with "untimed", one of "variable", "tbc", "n/a", "-", or another string
TableShape(duration_text) ==
  LET t == LowerText(Strip(duration_text))
      n == Len(t)
  IN IF PureInteger(t) THEN "integer"
     ELSE IF n >= 3 /\ t[1] = "max" /\ IsNum(t[n]) /\ SpacesBetween(t, 1, n)
       THEN "max"
     ELSE IF /\ n >= 5 /\ IsNum(t[1]) /\ IsNum(t[n])
             /\ \E j \in 3..(n - 2) :
                  t[j] = "to" /\ SpacesBetween(t, 1, j) /\ SpacesBetween(t, j, n)
             /\ IntOf(t[1]) <= IntOf(t[n])
       THEN "range"
     ELSE IF n >= 1 /\ t[1] = "untimed" THEN "untimed"
     ELSE IF t \in {<<"variable">>, <<"tbc">>, <<"n/a">>, <<"-">>} THEN "variable"
     ELSE "other"

\* the duration fields the table gives a cell of one of its shapes
TableDuration(duration_text) ==
  LET t == LowerText(Strip(duration_text))
      shape == TableShape(duration_text)
  IN CASE shape = "integer" -> Duration(IntOf(t[1]), IntOf(t[1]), FALSE, FALSE)
       [] shape = "max" -> Duration(NoneInt, IntOf(t[Len(t)]), FALSE, FALSE)
       [] shape = "range" -> Duration(IntOf(t[1]), IntOf(t[Len(t)]), FALSE, TRUE)
       [] shape = "untimed" -> Duration(NoneInt, NoneInt, TRUE, FALSE)
       [] OTHER -> Duration(NoneInt, NoneInt, FALSE, TRUE)

\* C19: for a cell of one of the shapes of the table, the parsers of load_data
\* and parse_duration_text of data_parser both give the duration fields of the
\* table.
C19_ParsersAgreeWithTable ==
  TableShape(duration_cell) # "other" =>
    /\ loaded.status = "parsed" => loaded = TableDuration(duration_cell)
    /\ parsed.status = "parsed" => parsed = TableDuration(duration_cell)


(* --------------- the similarity floor of the vector search -------------- *)
\* the caller of get_recommendations set filters.min_similarity
CallerSetFloor ==
  request.has_filters /\ request.filters.min_similarity # NoneInt

\* C20: the similarity floor get_recommendations passes to the store is the
\* caller's filters.min_similarity whenever the caller set it, 0 included, and
\* MIN_SIMILARITY_THRESHOLD whenever the caller set none and none is inferred
\* from the query.
C20_FloorFromCallerOrDefault ==
  (Answered /\ entry \in {"api", "std"}) =>
    /\ CallerSetFloor => SearchFloor = request.filters.min_similarity
    /\ (~CallerSetFloor
        /\ DictGet(extracted_filters, "min_similarity", NoneInt) = NoneInt) =>
         SearchFloor = MIN_SIMILARITY_THRESHOLD


(* ------------------------ the rerank decision -------------------------- *)
\* the request got past retrieval with candidates and has ended
Decided == pc = "done" /\ matches # <<>>

\* C21: the reranker is invoked for a request if and only if the post-filter
\* candidates are more than top_k or ALWAYS_USE_LLM_RERANKING is set; when it is
\* not invoked the result is the first top_k candidates in retrieval order.
C21_RerankIffNeeded ==
  Decided =>
    /\ reranked.called <=>
         (Len(matches) > top_k \/ settings.ALWAYS_USE_LLM_RERANKING)
    /\ ~reranked.called => result.recommendations = Take(matches, top_k)


(* ----------------------- the reranked result --------------------------- *)
\* get_recommendations called the reranker, which returned a non-empty list
RerankedNonEmpty ==
  /\ Answered /\ entry \in {"api", "std"}
  /\ reranked.called /\ ~reranked.raised /\ reranked.indices # <<>>

\* the candidates at the valid indices in the returned order, at most k of
\* them, then the candidates not among them in similarity order, up to k items
RerankedThenSimilarity(ms, k, indices) ==
  LET valid == SelectSeq(indices, LAMBDA idx : idx \in 0..(Len(ms) - 1))
      head == [i \in 1..Min2(k, Len(valid)) |-> ms[valid[i] + 1]]
      rest == SelectSeq(ms, LAMBDA m : \A i \in DOMAIN head : head[i].id # m.id)
  IN head \o Take(rest, k - Len(head))

\* C22: when the reranker returns a non-empty list, the result is the candidates
\* at the valid indices in the returned order followed by the remaining
\* candidates in similarity order, it has exactly min(top_k, number of
\* candidates) items and every item is one of the candidates.
C22_RerankedResult ==
  RerankedNonEmpty =>
    /\ result.recommendations = RerankedThenSimilarity(matches, top_k, reranked.indices)
    /\ Len(result.recommendations) = Min2(top_k, Len(matches))
    /\ \A i \in DOMAIN result.recommendations :
         \E j \in DOMAIN matches : result.recommendations[i] = matches[j]


(* --------- the provider calls of get_recommendations, await by await ---- *)
\* line 50: await gemini_service.extract_filters_from_query(query)
AwaitExtractFilters ==
  /\ pc = "extract"
  /\ outstanding = {}
  /\ outstanding' = {"extract_filters_from_query"}
  /\ UNCHANGED main_vars

\* the call of line 50 returns; lines 51-77
ExtractFiltersReturns ==
  /\ "extract_filters_from_query" \in outstanding
  /\ ExtractFilters
  /\ outstanding' = outstanding \ {"extract_filters_from_query"}

\* line 81: await gemini_service.get_embedding(query)
AwaitGetEmbedding ==
  /\ pc = "embed"
  /\ outstanding = {}
  /\ outstanding' = {"get_embedding"}
  /\ UNCHANGED main_vars

\* the call of line 81 returns or raises; lines 82-87
GetEmbeddingReturns ==
  /\ "get_embedding" \in outstanding
  /\ GetEmbedding
  /\ outstanding' = outstanding \ {"get_embedding"}

InitCalls == Init

NextCalls ==
  \/ \E q \in Queries, k \in 1..MaxTopK, hf \in BOOLEAN, f \in CallerFilters :
       /\ (~hf => f = NoFilter)
       /\ SubmitApi(q, k, hf, f)
       /\ UNCHANGED others
  \/ AwaitExtractFilters /\ UNCHANGED <<run_vars, eval_vars, retry_vars, parse_vars>>
  \/ ExtractFiltersReturns /\ UNCHANGED <<run_vars, eval_vars, retry_vars, parse_vars>>
  \/ AwaitGetEmbedding /\ UNCHANGED <<run_vars, eval_vars, retry_vars, parse_vars>>
  \/ GetEmbeddingReturns /\ UNCHANGED <<run_vars, eval_vars, retry_vars, parse_vars>>

SpecCalls == InitCalls /\ [][NextCalls]_vars

\* the filter extraction of the request has returned
ExtractionReturned == pc \notin {"idle", "extract"}

\* C23: the embedding call and the filter-extraction call of a request run
\* concurrently: the embedding call does not wait for the filter extraction to
\* complete before it starts.
C23_EmbeddingStartsBeforeExtractionEnds ==
  [][("get_embedding" \in outstanding' /\ "get_embedding" \notin outstanding)
       => ~ExtractionReturned]_vars


(* ------------------------ the size of the retrieval -------------------- *)
\* match_assessments was called with match_count = top_k x RETRIEVAL_MULTIPLIER
\* and returned candidates: process_query always calls it so, get_recommendations
\* when it does not go through perform_vector_search. matches is what it
\* returned, less the candidates the duration filter of get_recommendations took
\* out.
RetrievedWithMatchCount ==
  \/ pc = "pq_generate"
  \/ pc = "rerank" /\ (settings.USE_MOCK_DATA \/ ~supabase_service.initialized)

\* C24: match_assessments called with match_count = top_k x RETRIEVAL_MULTIPLIER
\* returns at most match_count candidates, in descending order of similarity.
C24_AtMostMatchCountDescending ==
  RetrievedWithMatchCount =>
    /\ Len(matches) <= top_k * RETRIEVAL_MULTIPLIER
    /\ \A i, j \in DOMAIN matches :
         i < j => matches[i].similarity >= matches[j].similarity


(* ----------------------- the bounds of a duration ---------------------- *)
\* both bounds are set and the minimum is above the maximum
BoundsReversed(d) ==
  /\ d.status = "parsed"
  /\ d.duration_min_minutes # NoneInt /\ d.duration_max_minutes # NoneInt
  /\ d.duration_min_minutes > d.duration_max_minutes

\* the cell is a range "N to M", with or without a unit, written with N > M
ReversedRange(duration_text) ==
  LET t == LowerText(Strip(duration_text))
  IN /\ Len(t) >= 5 /\ IsNum(t[1]) /\ t[3] = "to" /\ IsNum(t[5])
     /\ t[2] = " " /\ t[4] = " "
     /\ IntOf(t[1]) > IntOf(t[5])

\* neither bound of the parsed duration is set
NoBounds(d) ==
  d.status = "parsed" =>
    d.duration_min_minutes = NoneInt /\ d.duration_max_minutes = NoneInt

\* C25: whenever a duration parser sets both duration_min_minutes and
\* duration_max_minutes, min <= max; a range written with min > max yields the
\* unknown tuple, with neither bound set.
C25_MinAtMostMax ==
  /\ ~BoundsReversed(loaded) /\ ~BoundsReversed(parsed)
  /\ ReversedRange(duration_cell) => NoBounds(loaded) /\ NoBounds(parsed)


(* --------------------------- durations in hours ------------------------ *)
\* the cell is "N hour(s)"
SingleHours(duration_text) ==
  LET t == LowerText(Strip(duration_text))
  IN Len(t) = 3 /\ IsNum(t[1]) /\ t[2] = " " /\ t[3] \in {"hour", "hours"}

\* the cell is "N to M hour(s)"
RangeHours(duration_text) ==
  LET t == LowerText(Strip(duration_text))
  IN /\ Len(t) = 7 /\ IsNum(t[1]) /\ t[3] = "to" /\ IsNum(t[5])
     /\ t[2] = " " /\ t[4] = " " /\ t[6] = " " /\ t[7] \in {"hour", "hours"}

\* the bounds of the parsed duration are the given numbers of minutes
HasBounds(d, min, max) ==
  d.status = "parsed" =>
    d.duration_min_minutes = min /\ d.duration_max_minutes = max

\* a bound that load_data sets is the given number of minutes
SetBoundsAre(d, min, max) ==
  d.status = "parsed" =>
    /\ d.duration_min_minutes \in {NoneInt, min}
    /\ d.duration_max_minutes \in {NoneInt, max}

\* C26: when the unit of a duration is "hour" or "hours" the parsed minutes are
\* the written numbers multiplied by 60: parse_duration_text gives
\* min = max = 60 x N for "N hours" and min = 60 x N, max = 60 x M for
\* "N to M hours".
C26_HoursTimesSixty ==
  LET t == LowerText(Strip(duration_cell))
  IN /\ SingleHours(duration_cell) =>
          /\ HasBounds(parsed, 60 * IntOf(t[1]), 60 * IntOf(t[1]))
          /\ SetBoundsAre(loaded, 60 * IntOf(t[1]), 60 * IntOf(t[1]))
     /\ RangeHours(duration_cell) =>
          /\ HasBounds(parsed, 60 * IntOf(t[1]), 60 * IntOf(t[5]))
          /\ SetBoundsAre(loaded, 60 * IntOf(t[1]), 60 * IntOf(t[5]))


(* ------------------------- total_assessments --------------------------- *)
\* C27: total_assessments of the response of get_recommendations is the number
\* of candidates the store's match returned, counted before any filter applied
\* after retrieval.
C27_TotalIsRawCount ==
  (Answered /\ entry \in {"api", "std"}) =>
    result.total_assessments = Len(VectorSearch)


(* ------------- evaluate_all and a concurrent save_ground_truth ---------- *)
\* the query the loop of evaluate_all has just evaluated made a provider call
\* (await gemini_service.get_embedding in process_query): it was found in
\* self.ground_truth_data and its request was valid. The look-up of a query
\* comes before that await, and between the test of evaluate_all and the
\* look-up of the first query there is no await.
AwaitedProvider ==
  /\ eval_pc \in {"loop", "summarize"}
  /\ eval_index > 1
  /\ evaluation_results # <<>>
  /\ LET last == evaluation_results[Len(evaluation_results)]
     IN /\ last.query_id = eval_keys[eval_index - 1]
        /\ RequestValid(last.query_text)
        /\ ValidatedQuery(last.query_text) # <<>>
        /\ eval_k \in 1..TopKLimit

\* EvaluationService.save_ground_truth, called by POST /api/evaluation/ground-truth:
\* the file is rewritten and self.ground_truth_data is bound to a new dict. The
\* handler runs whenever evaluate_all is not running: before a run, after it, or
\* while the run waits at the await of a provider call made for a query.
save_ground_truth(data) ==
  /\ eval_pc \in {"idle", "returned"} \/ AwaitedProvider
  /\ ground_truth_data' = data
  /\ UNCHANGED <<eval_pc, eval_k, eval_keys, eval_index, evaluation_results,
                 call_failed, summary, results_dir, completed_runs, clock>>

NextEvalSave ==
  \/ NextEval
  \/ \E data \in GroundTruths :
       /\ save_ground_truth(data)
       /\ UNCHANGED <<main_vars, process, runs, retry_vars, parse_vars, calls_vars>>

SpecEvalSave == InitEval /\ [][NextEvalSave]_vars

process_query(req, e, out) ==
  IF req.query = <<>> THEN Raised("ValueError")
  ELSE IF e = "raise" THEN Raised("RuntimeError")
  ELSE IF PipelineFilterArgs(req) # {} THEN Raised("RuntimeError")
  ELSE LET found == match_assessments(supabase_service, table, e,
                      req.top_k * RETRIEVAL_MULTIPLIER, PipelineThreshold(req),
                      req.query)
       IN IF found = <<>> THEN Ok(<<>>, 0)
          ELSE IF out.raised THEN Raised("RuntimeError")
          ELSE Ok(PipelineRecommendations(found, out.indices), Len(found))

\* the candidates process_query retrieves for the request
PipelineCandidates(req, e) ==
  match_assessments(supabase_service, table, e, req.top_k * RETRIEVAL_MULTIPLIER,
                    PipelineThreshold(req), req.query)

\* the ids of the recommendations, in order
Ids(recs) == [i \in DOMAIN recs |-> recs[i].id]

\* POST /api/recommendations has ended for a request without caller filters in
\* which the reranker was called, on the candidates process_query retrieves for
\* the same request: both paths get the same answers from the providers
SameProviderResponses ==
  /\ pc = "done" /\ entry = "api"
  /\ ~request.has_filters
  /\ reranked.called
  /\ matches = PipelineCandidates(request, embedding_call)

\* C29: for the same query and top_k, no caller filters, the same store and the
\* same provider responses, process_query and get_recommendations return the
\* same assessment ids in the same order and fail on the same inputs.
C29_PathsAgree ==
  SameProviderResponses =>
    LET pq == process_query(request, embedding_call, reranked)
    IN /\ (pq.status = "ok") = (result.status = "ok")
       /\ Ids(pq.recommendations) = Ids(result.recommendations)


(* ------------------ candidates are never all lost ---------------------- *)
\* C30: whenever retrieval yields at least one candidate, get_recommendations
\* returns at least one recommendation, whatever the filters and whatever the
\* reranker did: neither the duration filter nor the reranking empties a
\* non-empty list of candidates. Stated from the result: an answer without
\* candidates or without recommendations comes from an empty retrieval.
C30_CandidatesNeverEmptied ==
  (Answered /\ entry \in {"api", "std"}
   /\ (matches = <<>> \/ result.recommendations = <<>>)) =>
    VectorSearch = <<>>

\* a request was answered after the duration filter found no candidate within
\* the limit and the reranker returned nothing usable
C30_Witness ==
  /\ Answered /\ entry = "api"
  /\ reranked.called /\ (reranked.raised \/ reranked.indices = <<>>)
  /\ result.recommendations # <<>>
  /\ DictGet(merged_filters, "max_duration_minutes", 0) > 0
  /\ VectorSearch # <<>>
  /\ DurationFiltered(VectorSearch, merged_filters.max_duration_minutes) = <<>>

====
